---- MODULE Spec2Model ----
(***************************************************************************)
(* Model of src/deck.rs: the Suit, Rank and Card value types of a French   *)
(* deck with their parsing (FromStr), pretty printing (Display), ordering  *)
(* (Ord / PartialOrd), face-card classification and random sampling.       *)
(*                                                                         *)
(* A text (Rust &str / String) is a sequence of characters; an ASCII       *)
(* character is a one-letter string, a non-ASCII character is named by its *)
(* code point.  An enum value is the string of its variant name.           *)
(***************************************************************************)
EXTENDS Integers, Sequences, FiniteSets, TLC

VARIABLES
    buf,        \* text domain: the text at hand (an input or a Display output)
    src,        \* text domain: what produced buf
    parsed,     \* text domain: result of the last from_str on buf
    r1, r2,     \* rank domain: two ranks (self, other)
    rankOrd,    \* rank domain: result of r1.cmp(&r2)
    isFace,     \* rank domain: result of r1.face_card()
    asU8,       \* rank domain: result of r1 as u8
    card1, card2,   \* card domain: two cards
    cmp12,      \* card domain: comparison results of card1 against card2
    cmp21,      \* card domain: comparison results of card2 against card1
    samples     \* sampling domain: the cards sampled so far, oldest first

vars == <<buf, src, parsed, r1, r2, rankOrd, isFace, asU8,
          card1, card2, cmp12, cmp21, samples>>

textVars   == <<buf, src, parsed>>
rankVars   == <<r1, r2, rankOrd, isFace, asU8>>
cardVars   == <<card1, card2, cmp12, cmp21>>

-----------------------------------------------------------------------------
(* Bounds of the explored input space *)

\* longest all-digit input text
MaxDigits == 2
\* longest run of successive Card samples
MaxSamples == 2

-----------------------------------------------------------------------------
(* Characters *)

LowerLetters == <<"a","b","c","d","e","f","g","h","i","j","k","l","m",
                  "n","o","p","q","r","s","t","u","v","w","x","y","z">>
UpperLetters == <<"A","B","C","D","E","F","G","H","I","J","K","L","M",
                  "N","O","P","Q","R","S","T","U","V","W","X","Y","Z">>
DigitChars   == <<"0","1","2","3","4","5","6","7","8","9">>

BlackClub    == "U+2663"
WhiteClub    == "U+2667"
BlackDiamond == "U+2666"
WhiteDiamond == "U+2662"
BlackHeart   == "U+2665"
WhiteHeart   == "U+2661"
BlackSpade   == "U+2660"
WhiteSpade   == "U+2664"
\* an upper-case letter outside ASCII whose lower case is the ASCII "k"
KelvinSign   == "U+212A"

Glyphs == {BlackClub, WhiteClub, BlackDiamond, WhiteDiamond,
           BlackHeart, WhiteHeart, BlackSpade, WhiteSpade}

Range(f) == {f[i] : i \in DOMAIN f}

\* char::to_lowercase on the characters above
ToLowerChar(c) ==
    IF c \in Range(UpperLetters)
    THEN LowerLetters[CHOOSE i \in 1..26 : UpperLetters[i] = c]
    ELSE IF c = KelvinSign THEN "k" ELSE c

\* variant of to_lowercase that leaves the text as it is
to_lowercase_identity(s) == s

\* str::to_lowercase
to_lowercase(s) == [i \in 1..Len(s) |-> ToLowerChar(s[i])]

\* format!("{number}") of a non-negative integer
RECURSIVE Decimal(_)
Decimal(n) ==
    IF n < 10 THEN <<DigitChars[n + 1]>>
    ELSE Decimal(n \div 10) \o <<DigitChars[(n % 10) + 1]>>

-----------------------------------------------------------------------------
(* Result and Error *)

Ok(v) == [tag |-> "Ok", val |-> v]
Err(e) == [tag |-> "Err", err |-> e]
ParseSuit(t) == [kind |-> "ParseSuit", text |-> t]
ParseRank(t) == [kind |-> "ParseRank", text |-> t]

\* Option
Some(o) == [tag |-> "Some", val |-> o]
None == [tag |-> "None"]

-----------------------------------------------------------------------------
(* Suit *)

Suit_ALL == <<"Clubs", "Diamonds", "Hearts", "Spades">>

\* derive(Debug): the variant name as text
Suit_Debug(s) ==
    CASE s = "Clubs"    -> <<"C","l","u","b","s">>
      [] s = "Diamonds" -> <<"D","i","a","m","o","n","d","s">>
      [] s = "Hearts"   -> <<"H","e","a","r","t","s">>
      [] s = "Spades"   -> <<"S","p","a","d","e","s">>

\* variant of Suit_fmt with the glyphs of the two red suits exchanged
Suit_fmt_red_exchanged(s, alternate) ==
    IF alternate THEN Suit_Debug(s)
    ELSE CASE s = "Clubs"    -> <<BlackClub>>
           [] s = "Diamonds" -> <<BlackHeart>>
           [] s = "Hearts"   -> <<BlackDiamond>>
           [] s = "Spades"   -> <<BlackSpade>>

Suit_fmt(s, alternate) ==
    IF alternate THEN Suit_Debug(s)
    ELSE CASE s = "Clubs"    -> <<BlackClub>>
           [] s = "Diamonds" -> <<BlackDiamond>>
           [] s = "Hearts"   -> <<BlackHeart>>
           [] s = "Spades"   -> <<BlackSpade>>

\* the arms of the match in Suit::from_str, on the lower-cased text
Suit_match(l) ==
    IF l \in {<<BlackClub>>, <<WhiteClub>>, <<"c">>,
              <<"c","l","u","b">>, <<"c","l","u","b","s">>}
    THEN Some("Clubs")
    ELSE IF l \in {<<BlackDiamond>>, <<WhiteDiamond>>, <<"d">>,
                   <<"d","i","a","m","o","n","d">>,
                   <<"d","i","a","m","o","n","d","s">>}
    THEN Some("Diamonds")
    ELSE IF l \in {<<BlackHeart>>, <<WhiteHeart>>, <<"h">>,
                   <<"h","e","a","r","t">>, <<"h","e","a","r","t","s">>}
    THEN Some("Hearts")
    ELSE IF l \in {<<BlackSpade>>, <<WhiteSpade>>, <<"s">>,
                   <<"s","p","a","d","e">>, <<"s","p","a","d","e","s">>}
    THEN Some("Spades")
    ELSE None

\* variant of Suit_from_str whose error carries the lower-cased text
Suit_from_str_lowered_error(s) ==
    LET m == Suit_match(to_lowercase(s)) IN
    IF m = None THEN Err(ParseSuit(to_lowercase(s))) ELSE Ok(m.val)

Suit_from_str(s) ==
    LET m == Suit_match(to_lowercase(s)) IN
    IF m = None THEN Err(ParseSuit(s)) ELSE Ok(m.val)

-----------------------------------------------------------------------------
(* Rank *)

\* the variants of enum Rank in declaration order
Rank_Variants == <<"Two", "Three", "Four", "Five", "Six", "Seven", "Eight",
                   "Nine", "Ten", "Jack", "Queen", "King", "Ace">>

\* the explicit discriminant of the first variant
FirstDiscriminant == 2

\* discriminant of a variant: the first is explicit, each later one is the
\* previous plus one; this is also the value of `rank as u8` / `rank as i8`
\* variant of Discriminant without the explicit `= 2`: numbering from zero
Discriminant_from_zero(r) ==
    (CHOOSE i \in DOMAIN Rank_Variants : Rank_Variants[i] = r) - 1

Discriminant(r) ==
    FirstDiscriminant + (CHOOSE i \in DOMAIN Rank_Variants : Rank_Variants[i] = r) - 1

Rank_ALL == <<"Two", "Three", "Four", "Five", "Six", "Seven", "Eight",
              "Nine", "Ten", "Jack", "Queen", "King", "Ace">>

\* Ord for the primitive integers
IntCmp(x, y) == IF x < y THEN "Less" ELSE IF x = y THEN "Equal" ELSE "Greater"

\* variant of Rank_cmp with the operands exchanged
Rank_cmp_exchanged(a, b) == IntCmp(Discriminant(b), Discriminant(a))

\* derive(Ord): compares discriminants
Rank_cmp(a, b) == IntCmp(Discriminant(a), Discriminant(b))

\* variant of face_card whose upper limit takes in the Ace
face_card_with_ace(r) ==
    LET value == Discriminant(r) IN 10 < value /\ value <= 14

face_card(r) ==
    LET value == Discriminant(r) IN 10 < value /\ value <= 13

\* derive(Debug): the variant name as text
Rank_Debug(r) ==
    CASE r = "Two"   -> <<"T","w","o">>
      [] r = "Three" -> <<"T","h","r","e","e">>
      [] r = "Four"  -> <<"F","o","u","r">>
      [] r = "Five"  -> <<"F","i","v","e">>
      [] r = "Six"   -> <<"S","i","x">>
      [] r = "Seven" -> <<"S","e","v","e","n">>
      [] r = "Eight" -> <<"E","i","g","h","t">>
      [] r = "Nine"  -> <<"N","i","n","e">>
      [] r = "Ten"   -> <<"T","e","n">>
      [] r = "Jack"  -> <<"J","a","c","k">>
      [] r = "Queen" -> <<"Q","u","e","e","n">>
      [] r = "King"  -> <<"K","i","n","g">>
      [] r = "Ace"   -> <<"A","c","e">>

\* variant of Rank_fmt whose numeric branch stops below ten
Rank_fmt_below_ten(r, alternate) ==
    LET debug_name == Rank_Debug(r)
        number == Discriminant(r)
    IN IF alternate THEN debug_name
       ELSE IF number < 10 THEN Decimal(number)
       ELSE SubSeq(debug_name, 1, 1)

Rank_fmt(r, alternate) ==
    LET debug_name == Rank_Debug(r)
        number == Discriminant(r)
    IN IF alternate THEN debug_name
       ELSE IF number <= 10 THEN Decimal(number)
       ELSE SubSeq(debug_name, 1, 1)

\* the arms of the match in Rank::from_str, on the lower-cased text
Rank_match(l) ==
    IF l \in {<<"1">>, <<"1","4">>, <<"o","n","e">>, <<"a">>, <<"a","c","e">>}
    THEN Some("Ace")
    ELSE IF l \in {<<"2">>, <<"t","w","o">>, <<"d">>, <<"d","e","u","c","e">>}
    THEN Some("Two")
    ELSE IF l \in {<<"3">>, <<"t","h","r","e","e">>, <<"t","r","e","y">>}
    THEN Some("Three")
    ELSE IF l \in {<<"4">>, <<"f","o","u","r">>} THEN Some("Four")
    ELSE IF l \in {<<"5">>, <<"f","i","v","e">>} THEN Some("Five")
    ELSE IF l \in {<<"6">>, <<"s","i","x">>} THEN Some("Six")
    ELSE IF l \in {<<"7">>, <<"s","e","v","e","n">>} THEN Some("Seven")
    ELSE IF l \in {<<"8">>, <<"e","i","g","h","t">>} THEN Some("Eight")
    ELSE IF l \in {<<"9">>, <<"n","i","n","e">>} THEN Some("Nine")
    ELSE IF l \in {<<"1","0">>, <<"t","e","n">>, <<"t">>} THEN Some("Ten")
    ELSE IF l \in {<<"1","1">>, <<"j","a","c","k">>, <<"k","n","a","v","e">>, <<"j">>}
    THEN Some("Jack")
    ELSE IF l \in {<<"1","2">>, <<"q","u","e","e","n">>, <<"q">>} THEN Some("Queen")
    ELSE IF l \in {<<"1","3">>, <<"k","i","n","g">>, <<"k">>} THEN Some("King")
    ELSE None

\* variant of Rank_from_str that reads "1" as the lowest rank
Rank_from_str_one_is_low(s) ==
    LET m == Rank_match(to_lowercase(s)) IN
    IF to_lowercase(s) = <<"1">> THEN Err(ParseRank(s))
    ELSE IF m = None THEN Err(ParseRank(s)) ELSE Ok(m.val)

Rank_from_str(s) ==
    LET m == Rank_match(to_lowercase(s)) IN
    IF m = None THEN Err(ParseRank(s)) ELSE Ok(m.val)

-----------------------------------------------------------------------------
(* Card *)

\* From<(Rank, Suit)> for Card
Card_from_rank_suit(pair) == [rank |-> pair[1], suit |-> pair[2]]

\* From<(Suit, Rank)> for Card
Card_from_suit_rank(pair) == [rank |-> pair[2], suit |-> pair[1]]

Card_rank(c) == c.rank
Card_suit(c) == c.suit

Card_fmt(c, alternate) ==
    IF alternate
    THEN Rank_fmt(c.rank, TRUE) \o <<" ","o","f"," ">> \o Suit_fmt(c.suit, TRUE)
    ELSE Suit_fmt(c.suit, FALSE) \o Rank_fmt(c.rank, FALSE)

\* variant of partial_cmp that orders cards of different suits by rank too
partial_cmp_across_suits(self, other) ==
    Some(Rank_cmp(self.rank, other.rank))

partial_cmp(self, other) ==
    IF self.suit = other.suit
    THEN Some(Rank_cmp(self.rank, other.rank))
    ELSE None

\* the comparison operators, as PartialOrd derives them from partial_cmp
Card_lt(a, b) == partial_cmp(a, b) = Some("Less")
Card_le(a, b) == partial_cmp(a, b) \in {Some("Less"), Some("Equal")}
Card_gt(a, b) == partial_cmp(a, b) = Some("Greater")
Card_ge(a, b) == partial_cmp(a, b) \in {Some("Greater"), Some("Equal")}

-----------------------------------------------------------------------------
(* Random sampling *)

\* Uniform::new(low, high): the indices a draw can produce (high excluded)
Uniform(low, high) == low .. (high - 1)

\* Distribution<Suit> for Standard, given the index the generator drew
Suit_sample(index) == LET suits == Suit_ALL IN suits[index + 1]

\* Distribution<Rank> for Standard, given the index the generator drew
Rank_sample(index) == LET ranks == Rank_ALL IN ranks[index + 1]

-----------------------------------------------------------------------------
(* Input texts *)

ToUpperChar(c) ==
    IF c \in Range(LowerLetters)
    THEN UpperLetters[CHOOSE i \in 1..26 : LowerLetters[i] = c]
    ELSE c

Upper(s) == [i \in 1..Len(s) |-> ToUpperChar(s[i])]
Capitalized(s) == [i \in 1..Len(s) |-> IF i = 1 THEN ToUpperChar(s[i]) ELSE s[i]]
CaseVariants(s) == {s, Upper(s), Capitalized(s)}

DigitTexts == UNION {[1..n -> Range(DigitChars)] : n \in 1..MaxDigits}

CharTexts ==
    {<<c>> : c \in Range(LowerLetters) \cup Range(UpperLetters)
                   \cup Glyphs \cup {KelvinSign, " ", "-"}}

Words ==
    { <<"c","l","u","b">>, <<"c","l","u","b","s">>,
      <<"d","i","a","m","o","n","d">>, <<"d","i","a","m","o","n","d","s">>,
      <<"h","e","a","r","t">>, <<"h","e","a","r","t","s">>,
      <<"s","p","a","d","e">>, <<"s","p","a","d","e","s">>,
      <<"o","n","e">>, <<"t","w","o">>, <<"t","h","r","e","e">>,
      <<"f","o","u","r">>, <<"f","i","v","e">>, <<"s","i","x">>,
      <<"s","e","v","e","n">>, <<"e","i","g","h","t">>, <<"n","i","n","e">>,
      <<"t","e","n">>, <<"j","a","c","k">>, <<"q","u","e","e","n">>,
      <<"k","i","n","g">>, <<"a","c","e">>,
      <<"d","e","u","c","e">>, <<"t","r","e","y">>, <<"k","n","a","v","e">>,
      <<"e","l","e","v","e","n">>, <<"j","o","k","e","r">>,
      <<"a","c","e","s">>, <<"t","w","o","s">>, <<"k","i","n","g","s">>,
      <<"1","s","t">>, <<"a","1">>, <<" ","c">>, <<"j"," ">>,
      <<BlackClub, BlackClub>>, <<BlackHeart, "7">>,
      <<KelvinSign,"i","n","g">> }

Texts == {<<>>} \cup DigitTexts \cup CharTexts
         \cup UNION {CaseVariants(w) : w \in Words}

Suits == Range(Suit_ALL)
Ranks == Range(Rank_ALL)
Cards == {Card_from_rank_suit(<<r, s>>) : r \in Ranks, s \in Suits}

-----------------------------------------------------------------------------
(* Text domain: Display and FromStr *)

NotParsed == [ty |-> "none"]
\* the result slot of an operation: not called yet, or called with a result
Unset == [tag |-> "unset"]
Called(v) == [tag |-> "set", val |-> v]
FromInput == [op |-> "input", suit |-> "-", rank |-> "-", alternate |-> FALSE]

TextIdle == buf = <<>> /\ src = FromInput /\ parsed = NotParsed
RankIdle == /\ r1 = "Two" /\ r2 = "Two"
            /\ rankOrd = Unset /\ isFace = Unset /\ asU8 = Unset
CardIdle == /\ card1 = Card_from_rank_suit(<<"Two", "Clubs">>)
            /\ card2 = Card_from_rank_suit(<<"Two", "Clubs">>)
            /\ cmp12 = Unset /\ cmp21 = Unset
SampleIdle == samples = <<>>

Init ==
    /\ buf \in Texts
    /\ src = FromInput
    /\ parsed = NotParsed
    /\ RankIdle /\ CardIdle /\ SampleIdle

\* text.parse::<Suit>()
SuitParse ==
    /\ parsed' = [ty |-> "Suit", res |-> Suit_from_str(buf)]
    /\ UNCHANGED <<buf, src>>
    /\ UNCHANGED <<rankVars, cardVars, samples>>

\* text.parse::<Rank>()
RankParse ==
    /\ parsed' = [ty |-> "Rank", res |-> Rank_from_str(buf)]
    /\ UNCHANGED <<buf, src>>
    /\ UNCHANGED <<rankVars, cardVars, samples>>

\* format!("{}", suit) and format!("{:#}", suit)
SuitDisplay ==
    \E s \in Suits, alternate \in BOOLEAN :
        /\ buf' = Suit_fmt(s, alternate)
        /\ src' = [op |-> "Suit_fmt", suit |-> s, rank |-> "-",
                   alternate |-> alternate]
        /\ parsed' = NotParsed
        /\ UNCHANGED <<rankVars, cardVars, samples>>

\* format!("{}", rank) and format!("{:#}", rank)
RankDisplay ==
    \E r \in Ranks, alternate \in BOOLEAN :
        /\ buf' = Rank_fmt(r, alternate)
        /\ src' = [op |-> "Rank_fmt", suit |-> "-", rank |-> r,
                   alternate |-> alternate]
        /\ parsed' = NotParsed
        /\ UNCHANGED <<rankVars, cardVars, samples>>

\* format!("{}", card) and format!("{:#}", card)
CardDisplay ==
    \E c \in Cards, alternate \in BOOLEAN :
        /\ buf' = Card_fmt(c, alternate)
        /\ src' = [op |-> "Card_fmt", suit |-> Card_suit(c),
                   rank |-> Card_rank(c), alternate |-> alternate]
        /\ parsed' = NotParsed
        /\ UNCHANGED <<rankVars, cardVars, samples>>

Next == SuitParse \/ RankParse \/ SuitDisplay \/ RankDisplay \/ CardDisplay

Spec == Init /\ [][Next]_vars

-----------------------------------------------------------------------------
(* Rank domain: ordering, face cards, discriminants *)

InitRank ==
    /\ r1 \in Ranks /\ r2 \in Ranks
    /\ rankOrd = Unset /\ isFace = Unset /\ asU8 = Unset
    /\ TextIdle /\ CardIdle /\ SampleIdle

\* r1.cmp(&r2)
RankCompare ==
    /\ rankOrd' = Called(Rank_cmp(r1, r2))
    /\ UNCHANGED <<r1, r2, isFace, asU8>>
    /\ UNCHANGED <<textVars, cardVars, samples>>

\* r1.face_card()
RankFaceCard ==
    /\ isFace' = Called(face_card(r1))
    /\ UNCHANGED <<r1, r2, rankOrd, asU8>>
    /\ UNCHANGED <<textVars, cardVars, samples>>

\* r1 as u8
RankAsU8 ==
    /\ asU8' = Called(Discriminant(r1))
    /\ UNCHANGED <<r1, r2, rankOrd, isFace>>
    /\ UNCHANGED <<textVars, cardVars, samples>>

NextRank == RankCompare \/ RankFaceCard \/ RankAsU8

SpecRank == InitRank /\ [][NextRank]_vars

-----------------------------------------------------------------------------
(* Card domain: construction and partial ordering *)

Compare(a, b) ==
    [partial_cmp |-> partial_cmp(a, b),
     lt |-> Card_lt(a, b), le |-> Card_le(a, b),
     gt |-> Card_gt(a, b), ge |-> Card_ge(a, b)]

InitCard ==
    /\ card1 \in {Card_from_rank_suit(<<r, s>>) : r \in Ranks, s \in Suits}
    /\ card2 \in {Card_from_suit_rank(<<s, r>>) : s \in Suits, r \in Ranks}
    /\ cmp12 = Unset /\ cmp21 = Unset
    /\ TextIdle /\ RankIdle /\ SampleIdle

\* card1 compared against card2
CompareForward ==
    /\ cmp12' = Called(Compare(card1, card2))
    /\ UNCHANGED <<card1, card2, cmp21>>
    /\ UNCHANGED <<textVars, rankVars, samples>>

\* card2 compared against card1
CompareBackward ==
    /\ cmp21' = Called(Compare(card2, card1))
    /\ UNCHANGED <<card1, card2, cmp12>>
    /\ UNCHANGED <<textVars, rankVars, samples>>

NextCard == CompareForward \/ CompareBackward

SpecCard == InitCard /\ [][NextCard]_vars

-----------------------------------------------------------------------------
(* Sampling domain *)

InitSample == samples = <<>> /\ TextIdle /\ RankIdle /\ CardIdle

\* variant of Card_sample that never produces a card already sampled
Card_sample_without_replacement ==
    /\ Len(samples) < MaxSamples
    /\ \E ri \in Uniform(0, Len(Rank_ALL)), si \in Uniform(0, Len(Suit_ALL)) :
         LET rank == Rank_sample(ri)
             suit == Suit_sample(si)
         IN /\ [rank |-> rank, suit |-> suit] \notin Range(samples)
            /\ samples' = Append(samples, [rank |-> rank, suit |-> suit])
    /\ UNCHANGED <<textVars, rankVars, cardVars>>

\* Distribution<Card> for Standard: one draw for the rank, one for the suit
Card_sample ==
    /\ Len(samples) < MaxSamples
    /\ \E ri \in Uniform(0, Len(Rank_ALL)), si \in Uniform(0, Len(Suit_ALL)) :
         LET rank == Rank_sample(ri)
             suit == Suit_sample(si)
         IN samples' = Append(samples, [rank |-> rank, suit |-> suit])
    /\ UNCHANGED <<textVars, rankVars, cardVars>>

NextSample == Card_sample

SpecSample == InitSample /\ [][NextSample]_vars

-----------------------------------------------------------------------------
(* Properties *)

\* what comparing card a against card b must have produced
CardOrderAsSpecified(res, a, b) ==
    IF Card_suit(a) # Card_suit(b)
    THEN /\ res.partial_cmp = None
         /\ ~res.lt /\ ~res.gt /\ ~res.le /\ ~res.ge
    ELSE res.partial_cmp = Some(Rank_cmp(Card_rank(a), Card_rank(b)))

\* C1: cards of different suits are incomparable in both directions
\* (partial_cmp is None and <, >, <=, >= are all false); cards of one suit
\* compare as their ranks do.
C1_CardPartialOrder ==
    /\ cmp12.tag = "set" => CardOrderAsSpecified(cmp12.val, card1, card2)
    /\ cmp21.tag = "set" => CardOrderAsSpecified(cmp21.val, card2, card1)

C1_Witness ==
    /\ card1 = [rank |-> "Seven", suit |-> "Hearts"]
    /\ card2 = [rank |-> "Five", suit |-> "Spades"]
    /\ cmp12.tag = "set" /\ cmp21.tag = "set"
    /\ cmp12.val.partial_cmp = None /\ cmp21.val.partial_cmp = None

\* the glyph and the capitalised plural name of each suit
SuitGlyph ==
    [s \in Suits |->
        CASE s = "Clubs" -> <<BlackClub>> [] s = "Diamonds" -> <<BlackDiamond>>
          [] s = "Hearts" -> <<BlackHeart>> [] s = "Spades" -> <<BlackSpade>>]
SuitWords ==
    [s \in Suits |->
        CASE s = "Clubs"    -> <<"C","l","u","b","s">>
          [] s = "Diamonds" -> <<"D","i","a","m","o","n","d","s">>
          [] s = "Hearts"   -> <<"H","e","a","r","t","s">>
          [] s = "Spades"   -> <<"S","p","a","d","e","s">>]

\* C2: the symbolic display of a suit is its glyph, the verbose display its
\* capitalised plural name, and parsing either as a Suit gives the suit back.
C2_SuitRoundTrip ==
    src.op = "Suit_fmt" =>
        /\ buf = IF src.alternate THEN SuitWords[src.suit] ELSE SuitGlyph[src.suit]
        /\ parsed.ty = "Suit" => parsed.res = Ok(src.suit)

C2_Witness ==
    /\ src.op = "Suit_fmt" /\ src.suit = "Diamonds" /\ ~src.alternate
    /\ parsed.ty = "Suit" /\ parsed.res = Ok("Diamonds")

\* the English name of each rank
RankWords ==
    [r \in Ranks |->
        CASE r = "Two"   -> <<"T","w","o">>
          [] r = "Three" -> <<"T","h","r","e","e">>
          [] r = "Four"  -> <<"F","o","u","r">>
          [] r = "Five"  -> <<"F","i","v","e">>
          [] r = "Six"   -> <<"S","i","x">>
          [] r = "Seven" -> <<"S","e","v","e","n">>
          [] r = "Eight" -> <<"E","i","g","h","t">>
          [] r = "Nine"  -> <<"N","i","n","e">>
          [] r = "Ten"   -> <<"T","e","n">>
          [] r = "Jack"  -> <<"J","a","c","k">>
          [] r = "Queen" -> <<"Q","u","e","e","n">>
          [] r = "King"  -> <<"K","i","n","g">>
          [] r = "Ace"   -> <<"A","c","e">>]

\* C3: the verbose display of a rank is its English name, and parsing that
\* text as a Rank gives the rank back.
C3_RankVerboseRoundTrip ==
    (src.op = "Rank_fmt" /\ src.alternate) =>
        /\ buf = RankWords[src.rank]
        /\ parsed.ty = "Rank" => parsed.res = Ok(src.rank)

C3_Witness ==
    /\ src.op = "Rank_fmt" /\ src.alternate /\ src.rank = "Queen"
    /\ parsed.ty = "Rank" /\ parsed.res = Ok("Queen")

\* C4: a rejected text comes back in the error of the parser's own kind,
\* exactly as given (letter case kept).
C4_ErrorCarriesOriginalText ==
    /\ (parsed.ty = "Suit" /\ parsed.res.tag = "Err") =>
           parsed.res.err = [kind |-> "ParseSuit", text |-> buf]
    /\ (parsed.ty = "Rank" /\ parsed.res.tag = "Err") =>
           parsed.res.err = [kind |-> "ParseRank", text |-> buf]

C4_Witness ==
    /\ buf = <<"F">>
    /\ parsed.ty = "Suit"
    /\ parsed.res = Err([kind |-> "ParseSuit", text |-> <<"F">>])

\* the forms of a rank the specification lists, in lower case
ListedRankForms ==
    { <<<<"1">>, "Ace">>, <<<<"1","4">>, "Ace">>,
      <<<<"2">>, "Two">>, <<<<"3">>, "Three">>, <<<<"4">>, "Four">>,
      <<<<"5">>, "Five">>, <<<<"6">>, "Six">>, <<<<"7">>, "Seven">>,
      <<<<"8">>, "Eight">>, <<<<"9">>, "Nine">>, <<<<"1","0">>, "Ten">>,
      <<<<"a">>, "Ace">>, <<<<"d">>, "Two">>, <<<<"t">>, "Ten">>,
      <<<<"j">>, "Jack">>, <<<<"q">>, "Queen">>, <<<<"k">>, "King">>,
      <<<<"t","w","o">>, "Two">>, <<<<"t","h","r","e","e">>, "Three">>,
      <<<<"f","o","u","r">>, "Four">>, <<<<"f","i","v","e">>, "Five">>,
      <<<<"s","i","x">>, "Six">>, <<<<"s","e","v","e","n">>, "Seven">>,
      <<<<"e","i","g","h","t">>, "Eight">>, <<<<"n","i","n","e">>, "Nine">>,
      <<<<"t","e","n">>, "Ten">>, <<<<"j","a","c","k">>, "Jack">>,
      <<<<"q","u","e","e","n">>, "Queen">>, <<<<"k","i","n","g">>, "King">>,
      <<<<"a","c","e">>, "Ace">>,
      <<<<"d","e","u","c","e">>, "Two">>, <<<<"t","r","e","y">>, "Three">>,
      <<<<"k","n","a","v","e">>, "Jack">> }

\* the forms the parser takes beyond the listed ones
FurtherRankForms ==
    { <<<<"o","n","e">>, "Ace">>, <<<<"1","1">>, "Jack">>,
      <<<<"1","2">>, "Queen">>, <<<<"1","3">>, "King">> }

\* the result a Rank parse of text t must give when forms are the accepted ones
RankParseBy(forms, t) ==
    IF \E f \in forms : f[1] = to_lowercase(t)
    THEN Ok((CHOOSE f \in forms : f[1] = to_lowercase(t))[2])
    ELSE Err([kind |-> "ParseRank", text |-> t])

\* C5 as stated: ignoring letter case, Rank parsing accepts exactly the
\* listed forms and rejects every other text with ParseRank.
C5_ExactlyListedForms ==
    parsed.ty = "Rank" => parsed.res = RankParseBy(ListedRankForms, buf)

\* C5 amended: ignoring letter case, Rank parsing accepts exactly the listed
\* forms and "one" (Ace), "11" (Jack), "12" (Queen), "13" (King), and rejects
\* every other text with ParseRank.
C5_ListedAndFurtherForms ==
    parsed.ty = "Rank" =>
        parsed.res = RankParseBy(ListedRankForms \cup FurtherRankForms, buf)

C5_Witness ==
    /\ buf = <<"1","1">> /\ parsed.ty = "Rank" /\ parsed.res = Ok("Jack")

\* C6: face_card is true exactly for Jack, Queen and King.
C6_FaceCards ==
    isFace.tag = "set" => (isFace.val <=> r1 \in {"Jack", "Queen", "King"})

C6_Witness ==
    r1 = "Ace" /\ isFace.tag = "set" /\ isFace.val = FALSE

\* the compact text of each rank
RankCompact ==
    [r \in Ranks |->
        CASE r = "Two" -> <<"2">> [] r = "Three" -> <<"3">>
          [] r = "Four" -> <<"4">> [] r = "Five" -> <<"5">>
          [] r = "Six" -> <<"6">> [] r = "Seven" -> <<"7">>
          [] r = "Eight" -> <<"8">> [] r = "Nine" -> <<"9">>
          [] r = "Ten" -> <<"1","0">> [] r = "Jack" -> <<"J">>
          [] r = "Queen" -> <<"Q">> [] r = "King" -> <<"K">>
          [] r = "Ace" -> <<"A">>]

\* C7: the compact display of a rank is "2".."10" for Two..Ten and the first
\* letter of the English name for Jack, Queen, King and Ace.
C7_RankCompactDisplay ==
    (src.op = "Rank_fmt" /\ ~src.alternate) =>
        /\ buf = RankCompact[src.rank]
        /\ src.rank \in {"Jack", "Queen", "King", "Ace"} =>
               buf = <<RankWords[src.rank][1]>>

C7_Witness ==
    src.op = "Rank_fmt" /\ ~src.alternate /\ src.rank = "Ten" /\ buf = <<"1","0">>

\* position of a rank in the canonical sequence Rank::ALL
PositionInALL(r) == CHOOSE i \in DOMAIN Rank_ALL : Rank_ALL[i] = r

\* C8: ranks compare as their positions in Rank::ALL do and as their ordinals
\* do (so the ordinal increases strictly along Rank::ALL), and Ace is greater
\* than every other rank.
C8_RankTotalOrder ==
    rankOrd.tag = "set" =>
        /\ rankOrd.val = IntCmp(PositionInALL(r1), PositionInALL(r2))
        /\ rankOrd.val = IntCmp(Discriminant(r1), Discriminant(r2))
        /\ (r1 = "Ace" /\ r2 # "Ace") => rankOrd.val = "Greater"
        /\ (r1 # "Ace" /\ r2 = "Ace") => rankOrd.val = "Less"

C8_Witness ==
    r1 = "Ace" /\ r2 = "King" /\ rankOrd = Called("Greater")

\* C9: every sampled card has its rank in Rank::ALL and its suit in
\* Suit::ALL, and the next sample can be any of the 52 cards, the cards
\* sampled before included.
C9_SamplingWithReplacement ==
    /\ \A i \in DOMAIN samples :
           samples[i].rank \in Ranks /\ samples[i].suit \in Suits
    /\ Len(samples) < MaxSamples =>
           \A c \in Cards : ENABLED (Card_sample /\ samples' = Append(samples, c))

C9_Witness ==
    Len(samples) >= 2 /\ samples[1] = samples[2]

\* C10 as stated: the ordinal of a rank is in 2..13 and Ace carries 13.
C10_OrdinalUpTo13 ==
    asU8.tag = "set" =>
        /\ asU8.val \in 2..13
        /\ r1 = "Ace" => asU8.val = 13

\* C10 amended: the ordinal of a rank is in 2..14, assigned in the canonical
\* order Two..Ace (position in Rank::ALL plus one), and Ace carries 14.
C10_OrdinalUpTo14 ==
    asU8.tag = "set" =>
        /\ asU8.val \in 2..14
        /\ asU8.val = PositionInALL(r1) + 1
        /\ r1 = "Ace" => asU8.val = 14

C10_Witness ==
    r1 = "Ace" /\ asU8 = Called(14)

====
